---- MODULE Spec2Model ----
(***************************************************************************)
(* Model of the expense policy engine: validateExpense and its three       *)
(* rules (src/src/engine/expense-validator.ts), convertCurrency            *)
(* (src/src/utils/fx.ts) and daysBetween (src/src/utils/date.ts).          *)
(*                                                                         *)
(* One behaviour is one call of validateExpense.  Init draws the call's    *)
(* arguments; the actions are the successive blocks of the function body.  *)
(*                                                                         *)
(* Numbers.  Amounts, rates and limits are JavaScript doubles.  They are   *)
(* modelled as exact rationals [n, d] (d > 0, lowest terms).  Every rate   *)
(* the model draws is a power of two and every amount a whole number, so   *)
(* the double division and multiplication of convertCurrency are exact     *)
(* and agree with the rational ones.                                       *)
(*                                                                         *)
(* Alerts.  An alert is modelled by its code; the message text is not      *)
(* modelled.                                                               *)
(***************************************************************************)
EXTENDS Integers, Sequences, FiniteSets, TLC

(***************************************************************************)
(* Bounds of the model                                                     *)
(***************************************************************************)
\* expense dates fall on UTC days 0..MaxDay
MaxDay == 3
\* policy.costCenterRules has at most MaxRules entries
MaxRules == 2
\* rows one batch run reads at most
MaxRows == 3

(***************************************************************************)
(* Rational arithmetic standing for the double arithmetic of the code      *)
(***************************************************************************)
Abs(x) == IF x < 0 THEN -x ELSE x

Gcd[a \in Nat, b \in Nat] == IF b = 0 THEN a ELSE Gcd[b, a % b]

\* the rational n/d in lowest terms with a positive denominator
Rat[n \in Int, d \in Int \ {0}] ==
    LET g == Gcd[Abs(n), Abs(d)]
        s == IF d < 0 THEN -1 ELSE 1
    IN  [n |-> (s * n) \div g, d |-> (s * d) \div g]

\* the whole number i
Num(i) == [n |-> i, d |-> 1]

\* a / b
RDiv(a, b) == Rat[a.n * b.d, a.d * b.n]
\* a * b
RMul(a, b) == Rat[a.n * b.n, a.d * b.d]
\* a > b
RGt(a, b) == a.n * b.d > b.n * a.d
\* a <= b
RLeq(a, b) == a.n * b.d <= b.n * a.d

(***************************************************************************)
(* Domain values                                                           *)
(***************************************************************************)
APPROVED == "APPROVED"
PENDING == "PENDING"
REJECTED == "REJECTED"
ExpenseStatus == {APPROVED, REJECTED, PENDING}

\* the value of an absent optional (rates not supplied, no map entry)
Undefined == [undefined |-> TRUE]
\* the value of a local that has not been assigned yet
Unset == "unset"

msPerDay == 24 * 60 * 60 * 1000


(***************************************************************************)
(* daysBetween (utils/date.ts).  A Date is its epoch time in milliseconds. *)
(***************************************************************************)
\* Date.UTC(d.getUTCFullYear(), d.getUTCMonth(), d.getUTCDate())
UTCDayStart(t) == (t \div msPerDay) * msPerDay

daysBetween(earlier, later) ==
    LET e == UTCDayStart(earlier)
        l == UTCDayStart(later)
    IN  (l - e) \div msPerDay

Max(a, b) == IF a > b THEN a ELSE b

(***************************************************************************)
(* convertCurrency (utils/fx.ts).  The result is [ok |-> TRUE, value] for  *)
(* a returned number and [ok |-> FALSE, missing] for the thrown Error,     *)
(* missing being the currency the message names.                           *)
(***************************************************************************)
Returned(v) == [ok |-> TRUE, value |-> v]
Thrown(c) == [ok |-> FALSE, missing |-> c]

\* rateMap[currency]: the entry, or undefined when the key is absent
Lookup(rateMap, currency) ==
    IF currency \in DOMAIN rateMap THEN rateMap[currency] ELSE Undefined

\* convertCurrency multiplying by the source rate and dividing by the target
convertCurrency_inverted(amount, fromCurrency, toCurrency, table) ==
    IF fromCurrency = toCurrency THEN Returned(amount)
    ELSE
        LET base == table.base
            rateMap == table.rates
            fromRate == IF fromCurrency = base THEN Num(1)
                        ELSE Lookup(rateMap, fromCurrency)
            toRate == IF toCurrency = base THEN Num(1)
                      ELSE Lookup(rateMap, toCurrency)
        IN  IF fromRate = Undefined THEN Thrown(fromCurrency)
            ELSE IF toRate = Undefined THEN Thrown(toCurrency)
            ELSE IF fromRate = toRate THEN Returned(amount)
            ELSE Returned(RDiv(RMul(amount, fromRate), toRate))

\* convertCurrency looking the base currency up in the rate map as well
convertCurrency_baseLookedUp(amount, fromCurrency, toCurrency, table) ==
    IF fromCurrency = toCurrency THEN Returned(amount)
    ELSE
        LET rateMap == table.rates
            fromRate == Lookup(rateMap, fromCurrency)
            toRate == Lookup(rateMap, toCurrency)
        IN  IF fromRate = Undefined THEN Thrown(fromCurrency)
            ELSE IF toRate = Undefined THEN Thrown(toCurrency)
            ELSE IF fromRate = toRate THEN Returned(amount)
            ELSE Returned(RMul(RDiv(amount, fromRate), toRate))

convertCurrency(amount, fromCurrency, toCurrency, table) ==
    IF fromCurrency = toCurrency THEN Returned(amount)
    ELSE
        LET base == table.base
            rateMap == table.rates
            fromRate == IF fromCurrency = base THEN Num(1)
                        ELSE Lookup(rateMap, fromCurrency)
            toRate == IF toCurrency = base THEN Num(1)
                      ELSE Lookup(rateMap, toCurrency)
        IN  IF fromRate = Undefined THEN Thrown(fromCurrency)
            ELSE IF toRate = Undefined THEN Thrown(toCurrency)
            ELSE IF fromRate = toRate THEN Returned(amount)
            ELSE Returned(RMul(RDiv(amount, fromRate), toRate))

(***************************************************************************)
(* The rules (engine/expense-validator.ts).  Each takes the rule context   *)
(* and the alert list and yields its status and the alert list after its   *)
(* pushes.                                                                 *)
(***************************************************************************)
Outcome(st, al) == [status |-> st, alerts |-> al]

\* checkAge with >= for > at the rejection threshold
checkAge_inclusive(ctx, al) ==
    LET daysOld == Max(0, daysBetween(ctx.expense.date, ctx.asOf))
        rejectedAfterDays == ctx.policy.ageLimit.rejectedAfterDays
        pendingAfterDays == ctx.policy.ageLimit.pendingAfterDays
    IN  IF daysOld >= rejectedAfterDays
        THEN Outcome(REJECTED, Append(al, "AGE_LIMIT"))
        ELSE IF daysOld > pendingAfterDays
        THEN Outcome(PENDING, Append(al, "AGE_LIMIT"))
        ELSE Outcome(APPROVED, al)

\* checkAge putting its alert at the head of the list
checkAge_unshift(ctx, al) ==
    LET daysOld == Max(0, daysBetween(ctx.expense.date, ctx.asOf))
        rejectedAfterDays == ctx.policy.ageLimit.rejectedAfterDays
        pendingAfterDays == ctx.policy.ageLimit.pendingAfterDays
    IN  IF daysOld > rejectedAfterDays
        THEN Outcome(REJECTED, <<"AGE_LIMIT">> \o al)
        ELSE IF daysOld > pendingAfterDays
        THEN Outcome(PENDING, <<"AGE_LIMIT">> \o al)
        ELSE Outcome(APPROVED, al)

checkAge(ctx, al) ==
    LET daysOld == Max(0, daysBetween(ctx.expense.date, ctx.asOf))
        rejectedAfterDays == ctx.policy.ageLimit.rejectedAfterDays
        pendingAfterDays == ctx.policy.ageLimit.pendingAfterDays
    IN  IF daysOld > rejectedAfterDays
        THEN Outcome(REJECTED, Append(al, "AGE_LIMIT"))
        ELSE IF daysOld > pendingAfterDays
        THEN Outcome(PENDING, Append(al, "AGE_LIMIT"))
        ELSE Outcome(APPROVED, al)

\* checkCategoryLimit with >= for > at the auto-approval limit
checkCategoryLimit_inclusive(ctx, al) ==
    LET categoryPolicy == Lookup(ctx.policy.categoryLimits, ctx.expense.category)
    IN  IF categoryPolicy = Undefined THEN Outcome(APPROVED, al)
        ELSE IF RGt(ctx.amountToCheck, categoryPolicy.pendingUpTo)
        THEN Outcome(REJECTED, Append(al, "CATEGORY_LIMIT"))
        ELSE IF ~RGt(categoryPolicy.approvedUpTo, ctx.amountToCheck)
        THEN Outcome(PENDING, Append(al, "CATEGORY_LIMIT"))
        ELSE Outcome(APPROVED, al)

checkCategoryLimit(ctx, al) ==
    LET categoryPolicy == Lookup(ctx.policy.categoryLimits, ctx.expense.category)
    IN  IF categoryPolicy = Undefined THEN Outcome(APPROVED, al)
        ELSE IF RGt(ctx.amountToCheck, categoryPolicy.pendingUpTo)
        THEN Outcome(REJECTED, Append(al, "CATEGORY_LIMIT"))
        ELSE IF RGt(ctx.amountToCheck, categoryPolicy.approvedUpTo)
        THEN Outcome(PENDING, Append(al, "CATEGORY_LIMIT"))
        ELSE Outcome(APPROVED, al)

\* checkCostCenter pushing one alert for every matching rule
checkCostCenter_everyMatch(ctx, al) ==
    LET rules == ctx.policy.costCenterRules
        hits == {i \in 1..Len(rules) :
                    /\ rules[i].costCenterId = ctx.employee.costCenterId
                    /\ rules[i].forbiddenCategory = ctx.expense.category}
    IN  IF hits # {}
        THEN Outcome(REJECTED,
                     al \o [i \in 1..Cardinality(hits) |-> "COST_CENTER_POLICY"])
        ELSE Outcome(APPROVED, al)

\* Array.prototype.find: the first element satisfying the callback
checkCostCenter(ctx, al) ==
    LET rules == ctx.policy.costCenterRules
        hits == {i \in 1..Len(rules) :
                    /\ rules[i].costCenterId = ctx.employee.costCenterId
                    /\ rules[i].forbiddenCategory = ctx.expense.category}
        violation == IF hits = {} THEN Undefined
                     ELSE rules[CHOOSE i \in hits : \A j \in hits : i <= j]
    IN  IF violation # Undefined
        THEN Outcome(REJECTED, Append(al, "COST_CENTER_POLICY"))
        ELSE Outcome(APPROVED, al)

\* Array.prototype.includes
Includes(seq, x) == \E i \in 1..Len(seq) : seq[i] = x

\* getMostRestrictive testing PENDING before REJECTED
getMostRestrictive_pendingFirst(statuses) ==
    IF Includes(statuses, PENDING) THEN PENDING
    ELSE IF Includes(statuses, REJECTED) THEN REJECTED
    ELSE APPROVED

getMostRestrictive(statuses) ==
    IF Includes(statuses, REJECTED) THEN REJECTED
    ELSE IF Includes(statuses, PENDING) THEN PENDING
    ELSE APPROVED


(***************************************************************************)
(* The arguments one call may receive                                      *)
(***************************************************************************)
Currencies == {"USD", "CLP", "EUR"}
BaseCurrencies == {"USD"}
Categories == {"FOOD", "TRANSPORT"}
CostCenters == {"core_engineering", "sales_team"}

\* expense.amount: non-positive values, and values at and around the limits
Amounts == {-1, 0, 50, 80, 100, 101, 150, 151}

\* time of day of a Date, in milliseconds: first and last instant of a day
TimesOfDay == {0, msPerDay - 1}
\* the UTC day of asOf
AsOfDay == MaxDay - 1
ExpenseDates == {d * msPerDay + t : d \in 0..MaxDay, t \in TimesOfDay}

\* policy.ageLimit, with pendingAfterDays <= rejectedAfterDays
AgeLimits ==
    {[pendingAfterDays |-> 0, rejectedAfterDays |-> 1],
     [pendingAfterDays |-> 0, rejectedAfterDays |-> 0]}

\* policy.categoryLimits, with approvedUpTo <= pendingUpTo; FOOD has an
\* entry and TRANSPORT has none
Limit(a, p) == [approvedUpTo |-> Num(a), pendingUpTo |-> Num(p)]
CategoryLimitMaps ==
    {[c \in {"FOOD"} |-> Limit(100, 150)],
     [c \in {"FOOD"} |-> Limit(100, 100)]}

\* policy.costCenterRules: every list of at most MaxRules rules
CostCenterRule == [costCenterId : CostCenters, forbiddenCategory : {"FOOD"}]
RuleLists == UNION {[1..n -> CostCenterRule] : n \in 0..MaxRules}

\* the rates argument: not supplied, or a table relative to one base
RateTables ==
    {[base |-> "USD", rates |-> [c \in {"CLP"} |-> Rat[1, 2]]],
     [base |-> "EUR", rates |-> [c \in {"USD", "CLP"} |-> Num(2)]],
     [base |-> "EUR", rates |-> [c \in {"CLP"} |-> Num(4)]],
     [base |-> "CLP", rates |-> [c \in {"USD"} |-> Rat[1, 2]]]}
RatesArgs == {Undefined} \cup RateTables

(***************************************************************************)
(* State: the arguments of the call, the locals of validateExpense, and    *)
(* what the call has produced.                                             *)
(***************************************************************************)
VARIABLES
    expense,          \* argument
    employee,         \* argument
    policy,           \* argument
    rates,            \* argument, Undefined when not supplied
    asOf,             \* argument
    pc,               \* the block of validateExpense to run next
    amountToCheck,    \* local
    alerts,           \* local: the alert codes pushed so far
    ageStatus,        \* local
    categoryStatus,   \* local
    costCenterStatus, \* local
    finalStatus,      \* local
    convertCalls,     \* number of calls of convertCurrency made
    result,           \* the returned ValidationResult, NoResult before that
    fxArgs,           \* the arguments of one direct call of convertCurrency
    fxResult,         \* what that call produced, Unset before it
    rows,             \* analyze.ts main: the rows the loop has taken so far
    anomalies,        \* analyze.ts main: the anomalies array
    duplicateIndex,   \* analyze.ts main: Map from dupKey to a gasto_id
    ratesCache,       \* analyze.ts main: Map from dateKey to a rate table
    counts,           \* analyze.ts main: results counted per status
    validated,        \* per row taken: the rates passed and the result
    fetchCalls        \* the dateKeys fetchRatesForDate was invoked with

args == <<expense, employee, policy, rates, asOf>>
locals == <<amountToCheck, alerts, ageStatus, categoryStatus,
            costCenterStatus, finalStatus>>
fxVars == <<fxArgs, fxResult>>
batchVars == <<rows, anomalies, duplicateIndex, ratesCache, counts,
               validated, fetchCalls>>
vars == <<expense, employee, policy, rates, asOf, pc, amountToCheck, alerts,
          ageStatus, categoryStatus, costCenterStatus, finalStatus,
          convertCalls, result, fxVars, batchVars>>

NoResult == [none |-> TRUE]

ValidationResult(id, st, al) == [expenseId |-> id, status |-> st, alerts |-> al]

\* the RuleContext built at line 85
ctx == [expense |-> expense, employee |-> employee, policy |-> policy,
        amountToCheck |-> amountToCheck, asOf |-> asOf]

\* no direct call of convertCurrency is in progress
FxIdle == fxArgs = Unset /\ fxResult = Unset

\* no batch run is in progress
BatchIdle ==
    /\ rows = << >>
    /\ anomalies = << >>
    /\ duplicateIndex = << >>
    /\ ratesCache = << >>
    /\ counts = Unset
    /\ validated = << >>
    /\ fetchCalls = << >>

Init ==
    /\ FxIdle
    /\ BatchIdle
    /\ expense \in [id : {"g_1"}, amount : {Num(a) : a \in Amounts},
                    currency : Currencies, category : Categories,
                    date : ExpenseDates]
    /\ employee \in [costCenterId : {"core_engineering"}]
    /\ policy \in [baseCurrency : BaseCurrencies, ageLimit : AgeLimits,
                   categoryLimits : CategoryLimitMaps,
                   costCenterRules : RuleLists]
    /\ rates \in RatesArgs
    /\ \E t \in TimesOfDay :
          /\ asOf = AsOfDay * msPerDay + t
          /\ expense.date % msPerDay # t
    /\ pc = "start"
    /\ amountToCheck = Unset
    /\ alerts = << >>
    /\ ageStatus = Unset
    /\ categoryStatus = Unset
    /\ costCenterStatus = Unset
    /\ finalStatus = Unset
    /\ convertCalls = 0
    /\ result = NoResult

(***************************************************************************)
(* validateExpense, block by block                                         *)
(***************************************************************************)
\* the test of line 39 written with < for <=
IsNonPositive_strict(amount) == ~RLeq(Num(0), amount)

\* line 39: expense.amount <= 0
IsNonPositive(amount) == RLeq(amount, Num(0))

\* lines 39-51: the non-positive amount short circuit
NonPositiveAmount ==
    /\ pc = "start"
    /\ IsNonPositive(expense.amount)
    /\ result' = ValidationResult(expense.id, REJECTED, <<"NEGATIVE_AMOUNT">>)
    /\ pc' = "returned"
    /\ UNCHANGED <<fxVars, batchVars, args, locals, convertCalls>>

\* lines 53-57: same currency, nothing to convert
SameCurrency ==
    /\ pc = "start"
    /\ ~IsNonPositive(expense.amount)
    /\ expense.currency = policy.baseCurrency
    /\ amountToCheck' = expense.amount
    /\ alerts' = << >>
    /\ pc' = "age"
    /\ UNCHANGED <<fxVars, batchVars, args, ageStatus, categoryStatus, costCenterStatus,
                   finalStatus, convertCalls, result>>

\* lines 57-62: conversion needed and no rates supplied
MissingRates ==
    /\ pc = "start"
    /\ ~IsNonPositive(expense.amount)
    /\ expense.currency # policy.baseCurrency
    /\ rates = Undefined
    /\ pc' = "threw"
    /\ amountToCheck' = expense.amount
    /\ alerts' = << >>
    /\ UNCHANGED <<fxVars, batchVars, args, ageStatus, categoryStatus, costCenterStatus,
                   finalStatus, convertCalls, result>>

\* the conversion without the try/catch: the Error of convertCurrency
\* leaves validateExpense
Convert_uncaught ==
    /\ pc = "start"
    /\ ~IsNonPositive(expense.amount)
    /\ expense.currency # policy.baseCurrency
    /\ rates # Undefined
    /\ LET conv == convertCurrency(expense.amount, expense.currency,
                                   policy.baseCurrency, rates)
       IN  IF conv.ok
           THEN /\ amountToCheck' = conv.value
                /\ alerts' = <<"CURRENCY_MISMATCH">>
                /\ pc' = "age"
           ELSE /\ amountToCheck' = expense.amount
                /\ alerts' = << >>
                /\ pc' = "threw"
    /\ convertCalls' = convertCalls + 1
    /\ UNCHANGED <<fxVars, batchVars, args, ageStatus, categoryStatus, costCenterStatus,
                   finalStatus, result>>

\* the conversion without the assignment of line 72
Convert_keepsOriginal ==
    /\ pc = "start"
    /\ ~IsNonPositive(expense.amount)
    /\ expense.currency # policy.baseCurrency
    /\ rates # Undefined
    /\ LET conv == convertCurrency(expense.amount, expense.currency,
                                   policy.baseCurrency, rates)
       IN  IF conv.ok
           THEN /\ amountToCheck' = expense.amount
                /\ alerts' = <<"CURRENCY_MISMATCH">>
           ELSE /\ amountToCheck' = expense.amount
                /\ alerts' = <<"CURRENCY_CONVERSION_ERROR">>
    /\ convertCalls' = convertCalls + 1
    /\ pc' = "age"
    /\ UNCHANGED <<fxVars, batchVars, args, ageStatus, categoryStatus, costCenterStatus,
                   finalStatus, result>>

\* the conversion zeroing the amount to check when it fails
Convert_zeroOnFailure ==
    /\ pc = "start"
    /\ ~IsNonPositive(expense.amount)
    /\ expense.currency # policy.baseCurrency
    /\ rates # Undefined
    /\ LET conv == convertCurrency(expense.amount, expense.currency,
                                   policy.baseCurrency, rates)
       IN  IF conv.ok
           THEN /\ amountToCheck' = conv.value
                /\ alerts' = <<"CURRENCY_MISMATCH">>
           ELSE /\ amountToCheck' = Num(0)
                /\ alerts' = <<"CURRENCY_CONVERSION_ERROR">>
    /\ convertCalls' = convertCalls + 1
    /\ pc' = "age"
    /\ UNCHANGED <<fxVars, batchVars, args, ageStatus, categoryStatus, costCenterStatus,
                   finalStatus, result>>

\* lines 63-83: the conversion, its alert on success and on failure
\* lines 57-83 storing the converted amount and the base currency in the
\* expense itself
Convert_inPlace ==
    /\ pc = "start"
    /\ ~IsNonPositive(expense.amount)
    /\ expense.currency # policy.baseCurrency
    /\ rates # Undefined
    /\ LET conv == convertCurrency(expense.amount, expense.currency,
                                   policy.baseCurrency, rates)
       IN  IF conv.ok
           THEN /\ amountToCheck' = conv.value
                /\ expense' = [expense EXCEPT
                                  !.amount = conv.value,
                                  !.currency = policy.baseCurrency]
                /\ alerts' = <<"CURRENCY_MISMATCH">>
           ELSE /\ amountToCheck' = expense.amount
                /\ expense' = expense
                /\ alerts' = <<"CURRENCY_CONVERSION_ERROR">>
    /\ convertCalls' = convertCalls + 1
    /\ pc' = "age"
    /\ UNCHANGED <<fxVars, batchVars, employee, policy, rates, asOf,
                   ageStatus, categoryStatus, costCenterStatus,
                   finalStatus, result>>

Convert ==
    /\ pc = "start"
    /\ ~IsNonPositive(expense.amount)
    /\ expense.currency # policy.baseCurrency
    /\ rates # Undefined
    /\ LET conv == convertCurrency(expense.amount, expense.currency,
                                   policy.baseCurrency, rates)
       IN  IF conv.ok
           THEN /\ amountToCheck' = conv.value
                /\ alerts' = <<"CURRENCY_MISMATCH">>
           ELSE /\ amountToCheck' = expense.amount
                /\ alerts' = <<"CURRENCY_CONVERSION_ERROR">>
    /\ convertCalls' = convertCalls + 1
    /\ pc' = "age"
    /\ UNCHANGED <<fxVars, batchVars, args, ageStatus, categoryStatus, costCenterStatus,
                   finalStatus, result>>

\* line 88
CheckAge ==
    /\ pc = "age"
    /\ LET r == checkAge(ctx, alerts)
       IN  /\ ageStatus' = r.status
           /\ alerts' = r.alerts
    /\ pc' = "category"
    /\ UNCHANGED <<fxVars, batchVars, args, amountToCheck, categoryStatus, costCenterStatus,
                   finalStatus, convertCalls, result>>

\* line 89
CheckCategoryLimit ==
    /\ pc = "category"
    /\ LET r == checkCategoryLimit(ctx, alerts)
       IN  /\ categoryStatus' = r.status
           /\ alerts' = r.alerts
    /\ pc' = "costCenter"
    /\ UNCHANGED <<fxVars, batchVars, args, amountToCheck, ageStatus, costCenterStatus,
                   finalStatus, convertCalls, result>>

\* line 90 run only while the earlier rules have approved
CheckCostCenter_unlessAlreadyHeld ==
    /\ pc = "costCenter"
    /\ LET r == IF ageStatus = APPROVED /\ categoryStatus = APPROVED
                THEN checkCostCenter(ctx, alerts)
                ELSE Outcome(APPROVED, alerts)
       IN  /\ costCenterStatus' = r.status
           /\ alerts' = r.alerts
    /\ pc' = "resolve"
    /\ UNCHANGED <<fxVars, batchVars, args, amountToCheck, ageStatus, categoryStatus,
                   finalStatus, convertCalls, result>>

\* line 90
CheckCostCenter ==
    /\ pc = "costCenter"
    /\ LET r == checkCostCenter(ctx, alerts)
       IN  /\ costCenterStatus' = r.status
           /\ alerts' = r.alerts
    /\ pc' = "resolve"
    /\ UNCHANGED <<fxVars, batchVars, args, amountToCheck, ageStatus, categoryStatus,
                   finalStatus, convertCalls, result>>

\* the escalation forcing every status to PENDING after a failed conversion
Escalate_always(st, al) ==
    IF Includes(al, "CURRENCY_CONVERSION_ERROR") THEN PENDING ELSE st

\* lines 99-105: a failed conversion lifts APPROVED to PENDING
Escalate(st, al) ==
    IF Includes(al, "CURRENCY_CONVERSION_ERROR") /\ st = APPROVED
    THEN PENDING ELSE st

\* lines 93-97: resolution
Resolve ==
    /\ pc = "resolve"
    /\ finalStatus' = getMostRestrictive(
                          <<ageStatus, categoryStatus, costCenterStatus>>)
    /\ pc' = "escalate"
    /\ UNCHANGED <<fxVars, batchVars, args, amountToCheck, alerts, ageStatus, categoryStatus,
                   costCenterStatus, convertCalls, result>>

\* lines 99-111: escalation and return
Return ==
    /\ pc = "escalate"
    /\ finalStatus' = Escalate(finalStatus, alerts)
    /\ result' = ValidationResult(expense.id, finalStatus', alerts)
    /\ pc' = "returned"
    /\ UNCHANGED <<fxVars, batchVars, args, amountToCheck, alerts, ageStatus, categoryStatus,
                   costCenterStatus, convertCalls>>

Next ==
    \/ NonPositiveAmount
    \/ SameCurrency
    \/ MissingRates
    \/ Convert
    \/ CheckAge
    \/ CheckCategoryLimit
    \/ CheckCostCenter
    \/ Resolve
    \/ Return

Spec == Init /\ [][Next]_vars


(***************************************************************************)
(* Vocabulary of the properties                                            *)
(***************************************************************************)
\* number of alerts of one code in an alert list
Count(al, code) == Cardinality({i \in 1..Len(al) : al[i] = code})

Returned_ == pc = "returned"
Positive == expense.amount.n > 0
NeedsConversion == expense.currency # policy.baseCurrency

\* REJECTED > PENDING > APPROVED
Restrictiveness(st) ==
    CASE st = APPROVED -> 0 [] st = PENDING -> 1 [] st = REJECTED -> 2

\* the most restrictive of the three rule statuses
MostRestrictiveOfRules ==
    CHOOSE st \in {ageStatus, categoryStatus, costCenterStatus} :
        \A other \in {ageStatus, categoryStatus, costCenterStatus} :
            Restrictiveness(other) <= Restrictiveness(st)

RulesRan ==
    /\ ageStatus \in ExpenseStatus
    /\ categoryStatus \in ExpenseStatus
    /\ costCenterStatus \in ExpenseStatus

(***************************************************************************)
(* C1.  An expense with amount <= 0 (0 included) is REJECTED with exactly  *)
(* one alert, NEGATIVE_AMOUNT, whatever the other arguments (a missing     *)
(* rate table with a foreign currency included): the call never leaves     *)
(* the short circuit, convertCurrency is never called, no rule runs and    *)
(* no error is raised.                                                     *)
(***************************************************************************)
C1_NonPositiveShortCircuit ==
    ~Positive =>
        /\ pc \in {"start", "returned"}
        /\ pc = "start" => ENABLED NonPositiveAmount
        /\ convertCalls = 0
        /\ ~RulesRan
        /\ Returned_ =>
              /\ result.status = REJECTED
              /\ result.alerts = <<"NEGATIVE_AMOUNT">>
              /\ result.expenseId = expense.id

C1_Witness ==
    /\ Returned_
    /\ expense.amount = Num(0)
    /\ NeedsConversion
    /\ rates = Undefined
    /\ result.alerts = <<"NEGATIVE_AMOUNT">>

(***************************************************************************)
(* C2.  For amount > 0, the status resolved from the three rules is the    *)
(* most restrictive of the age, category and cost-center statuses under    *)
(* REJECTED > PENDING > APPROVED, and the returned status is that status   *)
(* when no CURRENCY_CONVERSION_ERROR alert was recorded.                   *)
(***************************************************************************)
C2_MostRestrictiveWins ==
    /\ pc = "escalate" => finalStatus = MostRestrictiveOfRules
    /\ (Returned_ /\ Positive
           /\ ~Includes(result.alerts, "CURRENCY_CONVERSION_ERROR"))
          => result.status = MostRestrictiveOfRules

C2_Witness ==
    /\ Returned_
    /\ ageStatus = APPROVED
    /\ categoryStatus = PENDING
    /\ costCenterStatus = REJECTED
    /\ result.status = REJECTED

(***************************************************************************)
(* C3.  A result carrying a CURRENCY_CONVERSION_ERROR alert is never       *)
(* APPROVED: its status is PENDING when the rules resolved to APPROVED     *)
(* and the resolved status (PENDING or REJECTED) otherwise.                *)
(***************************************************************************)
C3_ConversionFailureNeverApproved ==
    (Returned_ /\ Includes(result.alerts, "CURRENCY_CONVERSION_ERROR")) =>
        /\ result.status \in {PENDING, REJECTED}
        /\ result.status = IF MostRestrictiveOfRules = APPROVED THEN PENDING
                           ELSE MostRestrictiveOfRules

C3_Witness ==
    /\ Returned_
    /\ Includes(result.alerts, "CURRENCY_CONVERSION_ERROR")
    /\ MostRestrictiveOfRules = APPROVED
    /\ result.status = PENDING


(***************************************************************************)
(* C4.  The age rule.  daysOld is the number of whole UTC calendar days    *)
(* from the expense date to asOf, 0 for a future-dated expense.            *)
(***************************************************************************)
\* the UTC calendar day a Date falls on
CalendarDay(t) == t \div msPerDay
DaysOld == Max(0, CalendarDay(asOf) - CalendarDay(expense.date))
FutureDated == expense.date > asOf
AgeRan == ageStatus \in ExpenseStatus
PendingAfter == policy.ageLimit.pendingAfterDays
RejectedAfter == policy.ageLimit.rejectedAfterDays

\* the decision list of the age rule and its alert
AgeDecision ==
    /\ ageStatus = IF DaysOld > RejectedAfter THEN REJECTED
                   ELSE IF DaysOld > PendingAfter THEN PENDING
                   ELSE APPROVED
    /\ Count(alerts, "AGE_LIMIT") = IF ageStatus = APPROVED THEN 0 ELSE 1
    /\ FutureDated => DaysOld = 0

\* C4 as stated: the decision list, and the four boundary values for every
\* policy
C4_AgeBoundaries_AsStated ==
    AgeRan =>
        /\ AgeDecision
        /\ DaysOld = PendingAfter => ageStatus = APPROVED
        /\ DaysOld = PendingAfter + 1 => ageStatus = PENDING
        /\ DaysOld = RejectedAfter => ageStatus = PENDING
        /\ DaysOld = RejectedAfter + 1 => ageStatus = REJECTED

\* C4 amended: the decision list holds for every policy; daysOld =
\* rejectedAfterDays + 1 is REJECTED; daysOld = pendingAfterDays is
\* APPROVED when pendingAfterDays <= rejectedAfterDays; daysOld =
\* pendingAfterDays + 1 and daysOld = rejectedAfterDays are PENDING only
\* when pendingAfterDays < rejectedAfterDays (with equal thresholds the
\* first is REJECTED and the second APPROVED).
C4_AgeBoundaries ==
    AgeRan =>
        /\ AgeDecision
        /\ DaysOld = RejectedAfter + 1 => ageStatus = REJECTED
        /\ PendingAfter <= RejectedAfter =>
              (DaysOld = PendingAfter => ageStatus = APPROVED)
        /\ PendingAfter < RejectedAfter =>
              /\ DaysOld = PendingAfter + 1 => ageStatus = PENDING
              /\ DaysOld = RejectedAfter => ageStatus = PENDING
        /\ PendingAfter = RejectedAfter =>
              /\ DaysOld = PendingAfter + 1 => ageStatus = REJECTED
              /\ DaysOld = RejectedAfter => ageStatus = APPROVED

C4_Witness ==
    /\ AgeRan
    /\ PendingAfter < RejectedAfter
    /\ DaysOld = RejectedAfter
    /\ asOf - expense.date < RejectedAfter * msPerDay
    /\ ageStatus = PENDING
    /\ Count(alerts, "AGE_LIMIT") = 1

(***************************************************************************)
(* C5.  The category-limit rule.  The amount to check is compared with     *)
(* the limits of the expense category; a category without an entry is      *)
(* APPROVED whatever the amount.                                           *)
(***************************************************************************)
CategoryRan == categoryStatus \in ExpenseStatus
HasLimit == expense.category \in DOMAIN policy.categoryLimits
ApprovedUpTo == policy.categoryLimits[expense.category].approvedUpTo
PendingUpTo == policy.categoryLimits[expense.category].pendingUpTo
\* the next amount above a limit: the amounts of the model are whole
JustAbove(limit) == Rat[limit.n + limit.d, limit.d]

CategoryStatusFor(amount) ==
    IF ~HasLimit THEN APPROVED
    ELSE IF RGt(amount, PendingUpTo) THEN REJECTED
    ELSE IF RGt(amount, ApprovedUpTo) THEN PENDING
    ELSE APPROVED

CategoryDecision ==
    /\ categoryStatus = CategoryStatusFor(amountToCheck)
    /\ Count(alerts, "CATEGORY_LIMIT") =
          IF categoryStatus = APPROVED THEN 0 ELSE 1

\* C5 as stated: the decision list, and the four boundary values for every
\* policy
C5_CategoryBoundaries_AsStated ==
    (CategoryRan /\ HasLimit) =>
        /\ CategoryDecision
        /\ amountToCheck = ApprovedUpTo => categoryStatus = APPROVED
        /\ amountToCheck = JustAbove(ApprovedUpTo) => categoryStatus = PENDING
        /\ amountToCheck = PendingUpTo => categoryStatus = PENDING
        /\ amountToCheck = JustAbove(PendingUpTo) => categoryStatus = REJECTED

\* C5 amended: the decision list holds for every policy, a category
\* without an entry is APPROVED with no alert; the amount just above
\* pendingUpTo is REJECTED; amount = approvedUpTo is APPROVED when
\* approvedUpTo <= pendingUpTo; the amount just above approvedUpTo and
\* amount = pendingUpTo are PENDING only when approvedUpTo < pendingUpTo
\* (with equal limits the first is REJECTED and the second APPROVED).
C5_CategoryBoundaries ==
    CategoryRan =>
        /\ CategoryDecision
        /\ ~HasLimit =>
              categoryStatus = APPROVED /\ Count(alerts, "CATEGORY_LIMIT") = 0
        /\ HasLimit =>
              /\ amountToCheck = JustAbove(PendingUpTo)
                    => categoryStatus = REJECTED
              /\ ~RGt(ApprovedUpTo, PendingUpTo) =>
                    (amountToCheck = ApprovedUpTo => categoryStatus = APPROVED)
              /\ RGt(PendingUpTo, ApprovedUpTo) =>
                    /\ amountToCheck = JustAbove(ApprovedUpTo)
                          => categoryStatus = PENDING
                    /\ amountToCheck = PendingUpTo => categoryStatus = PENDING
              /\ PendingUpTo = ApprovedUpTo =>
                    /\ amountToCheck = JustAbove(ApprovedUpTo)
                          => categoryStatus = REJECTED
                    /\ amountToCheck = PendingUpTo => categoryStatus = APPROVED

C5_Witness ==
    /\ CategoryRan
    /\ HasLimit
    /\ RGt(PendingUpTo, ApprovedUpTo)
    /\ amountToCheck = JustAbove(ApprovedUpTo)
    /\ categoryStatus = PENDING
    /\ Count(alerts, "CATEGORY_LIMIT") = 1

(***************************************************************************)
(* C6.  The cost-center rule is REJECTED exactly when some rule of the     *)
(* list names the employee's cost center and the expense category; it      *)
(* then pushes exactly one COST_CENTER_POLICY alert, however many rules    *)
(* match, and none when no rule matches.                                   *)
(***************************************************************************)
CostCenterRan == costCenterStatus \in ExpenseStatus
MatchingRules ==
    {i \in 1..Len(policy.costCenterRules) :
        /\ policy.costCenterRules[i].costCenterId = employee.costCenterId
        /\ policy.costCenterRules[i].forbiddenCategory = expense.category}

C6_CostCenterRule ==
    CostCenterRan =>
        /\ costCenterStatus = IF MatchingRules # {} THEN REJECTED ELSE APPROVED
        /\ Count(alerts, "COST_CENTER_POLICY") =
              IF MatchingRules # {} THEN 1 ELSE 0

C6_Witness ==
    /\ CostCenterRan
    /\ Cardinality(MatchingRules) = 2
    /\ costCenterStatus = REJECTED
    /\ Count(alerts, "COST_CENTER_POLICY") = 1


(***************************************************************************)
(* C7.  validateExpense raises (and returns no result) exactly when the    *)
(* amount is positive, the expense currency differs from the policy base   *)
(* currency and no rate table was supplied.  In every other case, a        *)
(* currency missing from the supplied table included, the call runs to     *)
(* its return and the result carries a status and alerts.                  *)
(***************************************************************************)
MissingRateTable == Positive /\ NeedsConversion /\ rates = Undefined

Conversion ==
    convertCurrency(expense.amount, expense.currency, policy.baseCurrency,
                    rates)
ConversionAttempted == Positive /\ NeedsConversion /\ rates # Undefined
ConversionSucceeded == ConversionAttempted /\ Conversion.ok
ConversionFailed == ConversionAttempted /\ ~Conversion.ok
FoodLimits100_150 ==
    /\ expense.category = "FOOD"
    /\ HasLimit
    /\ policy.categoryLimits["FOOD"] = Limit(100, 150)

C8_ConvertedAmountIsChecked ==
    (ConversionSucceeded /\ Returned_) =>
        /\ amountToCheck = Conversion.value
        /\ categoryStatus = CategoryStatusFor(Conversion.value)
        /\ Count(result.alerts, "CURRENCY_MISMATCH") = 1
        /\ Count(result.alerts, "CURRENCY_CONVERSION_ERROR") = 0
        /\ (FoodLimits100_150 /\ Conversion.value = Num(100)) =>
              /\ categoryStatus = APPROVED
              /\ Count(result.alerts, "CATEGORY_LIMIT") = 0
              /\ (ageStatus = APPROVED /\ costCenterStatus = APPROVED)
                    => result.status = APPROVED
        /\ (FoodLimits100_150 /\ Conversion.value = Num(160)) =>
              /\ result.status = REJECTED
              /\ Count(result.alerts, "CATEGORY_LIMIT") = 1

C8_Witness ==
    /\ Returned_
    /\ ConversionSucceeded
    /\ FoodLimits100_150
    /\ expense.amount = Num(80)
    /\ amountToCheck = Num(160)
    /\ result.status = REJECTED
    /\ Includes(result.alerts, "CURRENCY_MISMATCH")
    /\ Includes(result.alerts, "CATEGORY_LIMIT")

(***************************************************************************)
(* C9.  When the conversion fails on a currency missing from the supplied  *)
(* table, the alerts hold exactly one CURRENCY_CONVERSION_ERROR and no     *)
(* CURRENCY_MISMATCH, the three rules still run, and the category-limit    *)
(* rule compares the unconverted expense amount.                           *)
(***************************************************************************)
C9_FailedConversionKeepsOriginal ==
    (ConversionFailed /\ pc \notin {"start"}) =>
        /\ pc # "threw"
        /\ amountToCheck = expense.amount
        /\ Count(alerts, "CURRENCY_CONVERSION_ERROR") = 1
        /\ Count(alerts, "CURRENCY_MISMATCH") = 0
        /\ Returned_ =>
              /\ RulesRan
              /\ categoryStatus = CategoryStatusFor(expense.amount)
              /\ result.alerts = alerts

C9_Witness ==
    /\ Returned_
    /\ ConversionFailed
    /\ HasLimit
    /\ categoryStatus = REJECTED
    /\ ageStatus = PENDING
    /\ Includes(result.alerts, "CURRENCY_CONVERSION_ERROR")

(***************************************************************************)
(* C10.  Order of the alerts of a result for amount > 0.                   *)
(***************************************************************************)
ConversionCodes == {"CURRENCY_MISMATCH", "CURRENCY_CONVERSION_ERROR"}

\* every alert of al stands before every alert of a later stage
InStageOrder(al, stage(_)) ==
    \A i, j \in 1..Len(al) : i < j => stage(al[i]) <= stage(al[j])

\* the order C10 states: age, category, cost center, conversion
StatedStage(code) ==
    CASE code = "AGE_LIMIT" -> 1
      [] code = "CATEGORY_LIMIT" -> 2
      [] code = "COST_CENTER_POLICY" -> 3
      [] code \in ConversionCodes -> 4
      [] OTHER -> 0

\* the order of the pushes: conversion, age, category, cost center
PushStage(code) ==
    CASE code \in ConversionCodes -> 1
      [] code = "AGE_LIMIT" -> 2
      [] code = "CATEGORY_LIMIT" -> 3
      [] code = "COST_CENTER_POLICY" -> 4
      [] OTHER -> 0

\* C10 as stated: any AGE_LIMIT alert precedes any CATEGORY_LIMIT alert,
\* which precedes any COST_CENTER_POLICY alert, which precedes any
\* CURRENCY_MISMATCH or CURRENCY_CONVERSION_ERROR alert
C10_AlertOrder_AsStated ==
    (Returned_ /\ Positive) => InStageOrder(result.alerts, StatedStage)

\* C10 amended: the conversion alert (CURRENCY_MISMATCH or
\* CURRENCY_CONVERSION_ERROR, at most one of them) comes first, then any
\* AGE_LIMIT alert, then any CATEGORY_LIMIT alert, then any
\* COST_CENTER_POLICY alert
C10_AlertOrder ==
    (Returned_ /\ Positive) =>
        /\ InStageOrder(result.alerts, PushStage)
        /\ Cardinality({i \in 1..Len(result.alerts) :
                           result.alerts[i] \in ConversionCodes}) <= 1

C10_Witness ==
    /\ Returned_
    /\ Positive
    /\ result.alerts = <<"CURRENCY_MISMATCH", "AGE_LIMIT", "CATEGORY_LIMIT",
                         "COST_CENTER_POLICY">>

(***************************************************************************)
(* convertCurrency called on its own (utils/fx.ts): the arguments are      *)
(* drawn at the start, the call is one step.                               *)
(***************************************************************************)
\* rate tables of a direct call: those above, and one holding two
\* currencies besides its base at different rates
FxTables ==
    RateTables \cup
    {[base |-> "USD",
      rates |-> [c \in {"CLP", "EUR"} |->
                    IF c = "CLP" THEN Rat[1, 2] ELSE Num(2)]]}

\* no call of validateExpense is in progress
ValidateIdle ==
    /\ expense = Unset
    /\ employee = Unset
    /\ rates = Unset
    /\ amountToCheck = Unset
    /\ alerts = << >>
    /\ ageStatus = Unset
    /\ categoryStatus = Unset
    /\ costCenterStatus = Unset
    /\ finalStatus = Unset
    /\ convertCalls = 0
    /\ result = NoResult

InitFx ==
    /\ ValidateIdle
    /\ policy = Unset
    /\ asOf = Unset
    /\ BatchIdle
    /\ pc = "fx_call"
    /\ fxArgs \in [amount : {Num(a) : a \in Amounts},
                   fromCurrency : Currencies, toCurrency : Currencies,
                   rates : FxTables]
    /\ fxResult = Unset

\* the call: the arguments are read, nothing is assigned to them
FxCall ==
    /\ pc = "fx_call"
    /\ fxResult' = convertCurrency(fxArgs.amount, fxArgs.fromCurrency,
                                   fxArgs.toCurrency, fxArgs.rates)
    /\ pc' = "fx_done"
    /\ UNCHANGED <<fxArgs, batchVars, args, locals, convertCalls, result>>

NextFx == FxCall

SpecFx == InitFx /\ [][NextFx]_vars

FxDone == pc = "fx_done"
FxSame == fxArgs.fromCurrency = fxArgs.toCurrency
\* the currencies a table knows: its base and the keys of its rate map
Known(table) == {table.base} \cup DOMAIN table.rates
\* the rate a table gives a currency it knows
RateOf(table, c) == IF c = table.base THEN Num(1) ELSE table.rates[c]
FxFromRate == RateOf(fxArgs.rates, fxArgs.fromCurrency)
FxToRate == RateOf(fxArgs.rates, fxArgs.toCurrency)

\* C11: whenever convertCurrency returns, the value is the amount itself
\* when the two currencies are the same (whatever the table holds) or when
\* their two rates are equal, and (amount / fromRate) * toRate otherwise,
\* the base counting as rate 1; so value * fromRate = amount * toRate.
C11_ConversionReference ==
    (FxDone /\ fxResult.ok) =>
        IF FxSame THEN fxResult.value = fxArgs.amount
        ELSE /\ {fxArgs.fromCurrency, fxArgs.toCurrency}
                    \subseteq Known(fxArgs.rates)
             /\ IF FxFromRate = FxToRate
                THEN fxResult.value = fxArgs.amount
                ELSE fxResult.value =
                        RMul(RDiv(fxArgs.amount, FxFromRate), FxToRate)
             /\ RMul(fxResult.value, FxFromRate)
                    = RMul(fxArgs.amount, FxToRate)

\* a conversion between two currencies neither of which is the base, at
\* different rates, has returned an amount other than the one passed
C11_Witness ==
    /\ FxDone /\ fxResult.ok /\ ~FxSame
    /\ fxArgs.rates.base \notin {fxArgs.fromCurrency, fxArgs.toCurrency}
    /\ FxFromRate # FxToRate
    /\ fxResult.value # fxArgs.amount

AgeStatusAlone ==
    IF DaysOld > RejectedAfter THEN REJECTED
    ELSE IF DaysOld > PendingAfter THEN PENDING
    ELSE APPROVED
CostCenterStatusAlone == IF MatchingRules # {} THEN REJECTED ELSE APPROVED

\* C13: in a result for an amount above zero, the age, category and
\* cost-center statuses are those each rule gives on its own; AGE_LIMIT is
\* among the alerts iff the age status is not APPROVED, CATEGORY_LIMIT iff
\* the category status is not APPROVED, COST_CENTER_POLICY iff the
\* cost-center status is REJECTED; a PENDING category with a REJECTED cost
\* center gives REJECTED with both alerts.
C13_EveryRuleEvaluated ==
    (Returned_ /\ Positive) =>
        /\ ageStatus = AgeStatusAlone
        /\ categoryStatus = CategoryStatusFor(amountToCheck)
        /\ costCenterStatus = CostCenterStatusAlone
        /\ Includes(result.alerts, "AGE_LIMIT") <=> ageStatus # APPROVED
        /\ Includes(result.alerts, "CATEGORY_LIMIT")
              <=> categoryStatus # APPROVED
        /\ Includes(result.alerts, "COST_CENTER_POLICY")
              <=> costCenterStatus = REJECTED
        /\ (categoryStatus = PENDING /\ costCenterStatus = REJECTED) =>
              /\ result.status = REJECTED
              /\ Includes(result.alerts, "CATEGORY_LIMIT")
              /\ Includes(result.alerts, "COST_CENTER_POLICY")

\* a rejection by the age rule, a PENDING category and a REJECTED cost
\* center in one result, with the three alerts
C13_Witness ==
    /\ Returned_ /\ Positive
    /\ ageStatus = REJECTED
    /\ categoryStatus = PENDING
    /\ costCenterStatus = REJECTED
    /\ result.status = REJECTED
    /\ Includes(result.alerts, "AGE_LIMIT")
    /\ Includes(result.alerts, "CATEGORY_LIMIT")
    /\ Includes(result.alerts, "COST_CENTER_POLICY")

(***************************************************************************)
(* C14.  validateExpense assigns to none of its arguments.                 *)
(***************************************************************************)
\* C14: no step of a call changes the expense (its amount and currency
\* included), the employee, the policy, the rate table or asOf, whether
\* the call returns or raises and also after a successful conversion; and
\* the expenseId of the result is the id of the expense passed.
C14_InputsUntouched ==
    /\ [][args' = args]_vars
    /\ [](Returned_ => result.expenseId = expense.id)

\* a call has returned after a successful conversion: the amount checked
\* differs from the expense's amount, which is still the one passed
C14_Witness ==
    /\ Returned_
    /\ ConversionSucceeded
    /\ amountToCheck # expense.amount
    /\ result.expenseId = expense.id

(***************************************************************************)
(* validateExpense as one call (engine/expense-validator.ts), for the      *)
(* callers that await its result: the blocks above in their order.         *)
(***************************************************************************)
MissingRatesError == [threw |-> "Exchange rates are required"]

validateExpense(e, emp, pol, rt, asof) ==
    IF IsNonPositive(e.amount)
    THEN ValidationResult(e.id, REJECTED, <<"NEGATIVE_AMOUNT">>)
    ELSE IF e.currency # pol.baseCurrency /\ rt = Undefined
    THEN MissingRatesError
    ELSE
        LET mismatch == e.currency # pol.baseCurrency
            conv == convertCurrency(e.amount, e.currency, pol.baseCurrency, rt)
            amount == IF mismatch /\ conv.ok THEN conv.value ELSE e.amount
            al == IF ~mismatch THEN << >>
                  ELSE IF conv.ok THEN <<"CURRENCY_MISMATCH">>
                  ELSE <<"CURRENCY_CONVERSION_ERROR">>
            c == [expense |-> e, employee |-> emp, policy |-> pol,
                  amountToCheck |-> amount, asOf |-> asof]
            age == checkAge(c, al)
            category == checkCategoryLimit(c, age.alerts)
            costCenter == checkCostCenter(c, category.alerts)
            st == getMostRestrictive(
                    <<age.status, category.status, costCenter.status>>)
        IN  ValidationResult(e.id, Escalate(st, costCenter.alerts),
                             costCenter.alerts)

(***************************************************************************)
(* The batch run (batch/analyze.ts): main reads the rows and takes them    *)
(* one by one in input order.                                              *)
(***************************************************************************)
makePolicy ==
    [baseCurrency |-> "USD",
     ageLimit |-> [rejectedAfterDays |-> 60, pendingAfterDays |-> 30],
     categoryLimits |->
        [c \in {"FOOD", "TRANSPORT"} |->
            IF c = "FOOD" THEN Limit(100, 150) ELSE Limit(200, 200)],
     costCenterRules |->
        <<[costCenterId |-> "core_engineering", forbiddenCategory |-> "FOOD"]>>]

\* raw.toLowerCase() on the spellings the rows of the model use
ToLowerCase(raw) ==
    CASE raw \in {"food", "FOOD", "Food"} -> "food"
      [] raw \in {"transport", "Transport"} -> "transport"
      [] raw \in {"taxi", "Taxi"} -> "taxi"

toCategory(raw) ==
    CASE ToLowerCase(raw) = "food" -> "FOOD"
      [] ToLowerCase(raw) = "transport" -> "TRANSPORT"
      [] ToLowerCase(raw) = "software" -> "SOFTWARE"
      [] ToLowerCase(raw) = "lodging" -> "LODGING"
      [] OTHER -> "OTHER"

\* fecha is a calendar date YYYY-MM-DD, held as its day number; new Date of
\* it is midnight UTC of that day
NewDate(fecha) == fecha * msPerDay

\* date.toISOString(): the calendar date, then the time of day
ToISOString(t) == [ymd |-> t \div msPerDay, time |-> t % msPerDay]
\* .slice(0, 10) of it: the calendar date alone
Slice10(iso) == iso.ymd

toExpense(row) ==
    [id |-> row.gasto_id, amount |-> Num(row.monto), currency |-> row.moneda,
     category |-> toCategory(row.categoria), date |-> NewDate(row.fecha)]

toEmployee(row) ==
    [id |-> row.empleado_id, costCenterId |-> row.empleado_cost_center]

\* the calendar dates of the rows, as day numbers
RowDates == {0, 1}

\* the valid rows a run may read: every amount, currency and date under
\* one id; rows with the empty id, which z.string() accepts; and rows
\* spelling the category otherwise
CsvRows ==
    [gasto_id : {"g_1"}, empleado_id : {"e_1"},
     empleado_cost_center : {"core_engineering"}, categoria : {"food"},
     monto : {-1, 0, 50}, moneda : {"USD", "CLP"}, fecha : RowDates]
    \cup
    [gasto_id : {""}, empleado_id : {"e_1"},
     empleado_cost_center : {"core_engineering"}, categoria : {"food"},
     monto : {50}, moneda : {"USD", "CLP"}, fecha : {0}]
    \cup
    [gasto_id : {"g_1"}, empleado_id : {"e_1"},
     empleado_cost_center : {"core_engineering"},
     categoria : {"FOOD", "Taxi"},
     monto : {50}, moneda : {"USD"}, fecha : {0}]

\* what fetchRatesForDate may resolve to: a table relative to USD
FetchedTables == {t \in FxTables : t.base = "USD"}
\* Map.get and Map.set
MapHas(map, key) == key \in DOMAIN map
MapSet(map, key, value) == (key :> value) @@ map

\* getRatesForDate fetching and storing on every call
getRatesForDate_refetch(dateKey, cache, fetched) ==
    [value |-> fetched, cache |-> MapSet(cache, dateKey, fetched),
     fetch |-> TRUE]

\* getRatesForDate: the cached table (an object, so truthy whenever it is
\* present) or else the table fetched, which is stored; fetch tells
\* whether fetchRatesForDate was invoked
getRatesForDate(dateKey, cache, fetched) ==
    IF MapHas(cache, dateKey)
    THEN [value |-> cache[dateKey], cache |-> cache, fetch |-> FALSE]
    ELSE [value |-> fetched, cache |-> MapSet(cache, dateKey, fetched),
          fetch |-> TRUE]

\* the test of line 230 written with <= for <
IsNegative_orZero(amount) == RLeq(amount, Num(0))

\* line 230: expense.amount < 0
IsNegative(amount) == ~RLeq(Num(0), amount)

\* lines 230-236
NegativeAmountAnomalies(e) ==
    IF IsNegative(e.amount)
    THEN <<[code |-> "NEGATIVE_AMOUNT", gastoId |-> e.id, amount |-> e.amount]>>
    ELSE << >>

\* lines 239-245: the five values joined by "|"; none of the model's
\* strings holds a "|", so the joined string is held as the tuple
dupKey(e, emp) ==
    <<e.amount, e.currency, ToISOString(e.date), e.category, emp.id>>

\* line 247, if (first): first is undefined when the key is absent, and a
\* string is truthy when it is not empty
FirstIsTruthy(index, key) == MapHas(index, key) /\ index[key] # ""

\* lines 247-255
DuplicateAnomalies(e, emp, index) ==
    IF FirstIsTruthy(index, dupKey(e, emp))
    THEN <<[code |-> "DUPLICATE", gastoId |-> e.id,
            firstGastoId |-> index[dupKey(e, emp)], amount |-> e.amount,
            currency |-> e.currency, date |-> ToISOString(e.date)]>>
    ELSE << >>

\* lines 246-258: the index after the row
DuplicateIndexAfter(e, emp, index) ==
    IF FirstIsTruthy(index, dupKey(e, emp)) THEN index
    ELSE MapSet(index, dupKey(e, emp), e.id)

\* line 262
NeedsRates(e) == e.currency # policy.baseCurrency
\* line 263
DateKeyOf(e) == Slice10(ToISOString(e.date))

InitBatch ==
    /\ ValidateIdle
    /\ FxIdle
    /\ policy = makePolicy
    /\ asOf = NewDate(CHOOSE d \in RowDates : \A o \in RowDates : o <= d)
    /\ pc = "rows"
    /\ rows = << >>
    /\ anomalies = << >>
    /\ duplicateIndex = << >>
    /\ ratesCache = << >>
    /\ counts = [st \in ExpenseStatus |-> 0]
    /\ validated = << >>
    /\ fetchCalls = << >>

\* one iteration of the loop of lines 225-280 that reaches its end: the
\* rates, when needed, come from the cache or from a fetch that resolves.
\* validateExpense is always given rates when the currencies differ, so it
\* returns.
ProcessRow ==
    /\ pc = "rows"
    /\ Len(rows) < MaxRows
    /\ \E row \in CsvRows, fetched \in FetchedTables :
          LET e == toExpense(row)
              emp == toEmployee(row)
              got == getRatesForDate(DateKeyOf(e), ratesCache, fetched)
              rt == IF NeedsRates(e) THEN got.value ELSE Undefined
              res == validateExpense(e, emp, policy, rt, asOf)
          IN  /\ rows' = Append(rows, row)
              /\ anomalies' = anomalies \o NegativeAmountAnomalies(e)
                                \o DuplicateAnomalies(e, emp, duplicateIndex)
              /\ duplicateIndex' = DuplicateIndexAfter(e, emp, duplicateIndex)
              /\ ratesCache' = IF NeedsRates(e) THEN got.cache ELSE ratesCache
              /\ fetchCalls' = IF NeedsRates(e) /\ got.fetch
                               THEN Append(fetchCalls, DateKeyOf(e))
                               ELSE fetchCalls
              /\ validated' = Append(validated, [rates |-> rt, result |-> res])
              /\ counts' = [counts EXCEPT ![res.status] = @ + 1]
    /\ UNCHANGED <<pc, fxVars, args, locals, convertCalls, result>>

\* one iteration whose fetch is rejected: the anomalies of the row are
\* pushed and the index is updated, then main rejects and the run ends
\* without a report
ProcessRowFetchFails ==
    /\ pc = "rows"
    /\ Len(rows) < MaxRows
    /\ \E row \in CsvRows :
          LET e == toExpense(row)
              emp == toEmployee(row)
          IN  /\ NeedsRates(e)
              /\ ~MapHas(ratesCache, DateKeyOf(e))
              /\ rows' = Append(rows, row)
              /\ anomalies' = anomalies \o NegativeAmountAnomalies(e)
                                \o DuplicateAnomalies(e, emp, duplicateIndex)
              /\ duplicateIndex' = DuplicateIndexAfter(e, emp, duplicateIndex)
              /\ fetchCalls' = Append(fetchCalls, DateKeyOf(e))
    /\ pc' = "aborted"
    /\ UNCHANGED <<ratesCache, validated, counts, fxVars, args, locals,
                   convertCalls, result>>

\* the rows are exhausted: the report is written from counts and anomalies
WriteReport ==
    /\ pc = "rows"
    /\ pc' = "reported"
    /\ UNCHANGED <<batchVars, fxVars, args, locals, convertCalls, result>>

NextBatch ==
    \/ ProcessRow
    \/ ProcessRowFetchFails
    \/ WriteReport

SpecBatch == InitBatch /\ [][NextBatch]_vars

(***************************************************************************)
(* Vocabulary of the batch properties                                      *)
(***************************************************************************)
\* the expense and the duplicate key of the i-th row taken
ExpenseOfRow(i) == toExpense(rows[i])
KeyOfRow(row) == dupKey(toExpense(row), toEmployee(row))
\* the rows that ask for a rate table, and their date key
RowNeedsRates(i) == rows[i].moneda # policy.baseCurrency
RowDateKey(i) == rows[i].fecha
\* a step that takes a row, the row it takes and the anomalies it pushes
TakesRow == rows' # rows
RowNow == rows'[Len(rows')]
PushedNow == SubSeq(anomalies', Len(anomalies) + 1, Len(anomalies'))
PushedNowOf(code) == {i \in 1..Len(PushedNow) : PushedNow[i].code = code}
\* the rows taken before the current one under the same duplicate key
EarlierSameKey == {i \in 1..Len(rows) : KeyOfRow(rows[i]) = KeyOfRow(RowNow)}
Min(S) == CHOOSE x \in S : \A y \in S : x <= y
AnomaliesOf(code) == {i \in 1..Len(anomalies) : anomalies[i].code = code}
ResultsAlerting(code) ==
    {i \in 1..Len(validated) : Includes(validated[i].result.alerts, code)}

(***************************************************************************)
(* C15.  The rate-table cache of one run.                                  *)
(***************************************************************************)
\* C15: in a run, no step removes or replaces an entry of the rate cache,
\* whose keys are calendar dates of rows in a currency other than the
\* base; a step invokes fetchRatesForDate only for such a row and only
\* with a date key not fetched before, so at most once per key; a row in
\* the base currency is validated without rates, and every later row with
\* the date key of an earlier one is validated with the very table that
\* one was.
C15_RateCache ==
    /\ [][\A k \in DOMAIN ratesCache :
              k \in DOMAIN ratesCache' /\ ratesCache'[k] = ratesCache[k]]_vars
    /\ [][fetchCalls' # fetchCalls =>
              /\ TakesRow
              /\ RowNow.moneda # policy.baseCurrency
              /\ fetchCalls' = Append(fetchCalls, RowNow.fecha)
              /\ ~Includes(fetchCalls, RowNow.fecha)]_vars
    /\ [](/\ \A i, j \in 1..Len(fetchCalls) :
                fetchCalls[i] = fetchCalls[j] => i = j
          /\ DOMAIN ratesCache \subseteq
                {RowDateKey(i) : i \in {r \in 1..Len(rows) : RowNeedsRates(r)}}
          /\ \A i \in 1..Len(validated) :
                IF RowNeedsRates(i)
                THEN /\ RowDateKey(i) \in DOMAIN ratesCache
                     /\ validated[i].rates = ratesCache[RowDateKey(i)]
                     /\ \A j \in 1..Len(validated) :
                           (RowNeedsRates(j) /\ RowDateKey(j) = RowDateKey(i))
                              => validated[j].rates = validated[i].rates
                ELSE validated[i].rates = Undefined)

\* three rows in another currency: the first and the third of one date,
\* the second of another date for which a different table was fetched; two
\* fetches were made and the third row got the table of the first
C15_Witness ==
    /\ pc = "reported"
    /\ Len(validated) = 3
    /\ \A i \in 1..3 : RowNeedsRates(i)
    /\ RowDateKey(1) = RowDateKey(3)
    /\ RowDateKey(2) # RowDateKey(1)
    /\ Len(fetchCalls) = 2
    /\ validated[2].rates # validated[1].rates
    /\ validated[3].rates = validated[1].rates

(***************************************************************************)
(* C16.  Duplicate detection.                                              *)
(***************************************************************************)
\* C16: a step that takes a row pushes a DUPLICATE anomaly iff an earlier
\* row of the run has the same key (amount, currency, ISO date, category,
\* employee id), whatever the expense ids are, the empty one included; the
\* anomaly names the row's id and, as firstGastoId, the id of the first
\* row of the run with that key.
C16_DuplicateIffEarlierKey ==
    [][TakesRow =>
          IF EarlierSameKey # {}
          THEN /\ Cardinality(PushedNowOf("DUPLICATE")) = 1
               /\ \A a \in PushedNowOf("DUPLICATE") :
                     /\ PushedNow[a].gastoId = RowNow.gasto_id
                     /\ PushedNow[a].firstGastoId
                           = rows[Min(EarlierSameKey)].gasto_id
          ELSE PushedNowOf("DUPLICATE") = {}]_vars

(***************************************************************************)
(* C17.  Negative amounts: the anomaly and the validator's alert.          *)
(***************************************************************************)
\* C17: a step that takes a row pushes a NEGATIVE_AMOUNT anomaly, naming
\* the row's id and amount, iff the row's amount is below 0, whatever the
\* validation gives; a validated row with amount 0 is counted REJECTED with
\* the single alert NEGATIVE_AMOUNT and has no anomaly; the results that
\* carry that alert are those of the rows with an amount of 0 or less, so
\* in a run that has not been aborted the NEGATIVE_AMOUNT anomalies are
\* never more than those results.
C17_NegativeAmountAnomaly ==
    /\ [][TakesRow =>
             /\ Cardinality(PushedNowOf("NEGATIVE_AMOUNT"))
                   = IF RowNow.monto < 0 THEN 1 ELSE 0
             /\ \A a \in PushedNowOf("NEGATIVE_AMOUNT") :
                   /\ PushedNow[a].gastoId = RowNow.gasto_id
                   /\ PushedNow[a].amount = Num(RowNow.monto)]_vars
    /\ [](/\ Cardinality(AnomaliesOf("NEGATIVE_AMOUNT"))
                = Cardinality({i \in 1..Len(rows) : rows[i].monto < 0})
          /\ ResultsAlerting("NEGATIVE_AMOUNT")
                = {i \in 1..Len(validated) : rows[i].monto <= 0}
          /\ \A i \in 1..Len(validated) :
                rows[i].monto = 0 =>
                   validated[i].result =
                      ValidationResult(rows[i].gasto_id, REJECTED,
                                       <<"NEGATIVE_AMOUNT">>)
          /\ \A st \in ExpenseStatus :
                counts[st] = Cardinality({i \in 1..Len(validated) :
                                            validated[i].result.status = st})
          /\ pc # "aborted" =>
                Cardinality(AnomaliesOf("NEGATIVE_AMOUNT"))
                   <= Cardinality(ResultsAlerting("NEGATIVE_AMOUNT")))

\* a reported run with a row below 0 and a row of exactly 0: one anomaly,
\* two results carrying the alert
C17_Witness ==
    /\ pc = "reported"
    /\ \E i, j \in 1..Len(rows) : rows[i].monto < 0 /\ rows[j].monto = 0
    /\ Cardinality(AnomaliesOf("NEGATIVE_AMOUNT")) = 1
    /\ Cardinality(ResultsAlerting("NEGATIVE_AMOUNT")) = 2
    /\ counts[REJECTED] >= 2

====
